---- MODULE Spec2Model ----
(***************************************************************************)
(* State-machine model of generate_markers.py: the systems index (SQLite   *)
(* table `systems`, keyed by name COLLATE NOCASE), the freshness gate      *)
(* ensure_systems_db, the builder build_systems_db and the join            *)
(* generate_markers.                                                       *)
(*                                                                         *)
(* Strings are sequences of Unicode code points, so that str.strip() and   *)
(* the NOCASE collation are computed character by character.               *)
(* Optional values (Python None / SQL NULL) are <<>>, a present value v    *)
(* is <<v>>.                                                               *)
(***************************************************************************)
EXTENDS Integers, Sequences, FiniteSets, TLC

\* ------------------------------------------------------------------ bounds

\* Longest record source (in lines) of the multi-run specification Spec.
MaxLines == 3
\* Longest record source (in lines) of the single-run specification SpecBuild.
MaxWideLines == 2
\* Most station rows one run of generate_markers reads.
MaxRows == 2
\* Last tick of the file-system clock.
MaxTime == 2
\* Records per batch commit: the code's 10000, scaled to the short sources.
BatchSize == 2

\* ----------------------------------------------------------------- strings

None == <<>>
Some(v) == <<v>>

\* Characters str.strip() removes (the ASCII whitespace ones).
IsSpace(c) == c \in {9, 10, 11, 12, 13, 32}

RECURSIVE LStrip(_)
LStrip(s) == IF s # <<>> /\ IsSpace(Head(s)) THEN LStrip(Tail(s)) ELSE s

RECURSIVE RStrip(_)
RStrip(s) ==
    IF s # <<>> /\ IsSpace(s[Len(s)]) THEN RStrip(SubSeq(s, 1, Len(s) - 1)) ELSE s

\* str.strip()
Strip(s) == RStrip(LStrip(s))

\* SQLite's NOCASE collation folds the 26 ASCII upper-case letters only.
NoCaseFold(c) == IF c \in 65..90 THEN c + 32 ELSE c

\* name = ? on a column declared COLLATE NOCASE
NoCaseEq(a, b) ==
    /\ Len(a) = Len(b)
    /\ \A i \in 1..Len(a) : NoCaseFold(a[i]) = NoCaseFold(b[i])

\* ------------------------------------------------------------ pin mapping

TYPE_TO_PIN == {
    [type |-> <<65, 115, 116, 101, 114, 111, 105, 100, 32, 98, 97, 115, 101>>,
     pin |-> "asteroidbase"],                     \* "Asteroid base"
    [type |-> <<67, 111, 114, 105, 111, 108, 105, 115, 32, 83, 116, 97, 114,
                112, 111, 114, 116>>,
     pin |-> "coriolis"],                         \* "Coriolis Starport"
    [type |-> <<68, 111, 100, 101, 99, 32, 83, 116, 97, 114, 112, 111, 114, 116>>,
     pin |-> "dodec"],                            \* "Dodec Starport"
    [type |-> <<68, 114, 97, 107, 101, 45, 67, 108, 97, 115, 115, 32, 67, 97,
                114, 114, 105, 101, 114>>,
     pin |-> "carrier"],                          \* "Drake-Class Carrier"
    [type |-> <<79, 99, 101, 108, 108, 117, 115, 32, 83, 116, 97, 114, 112,
                111, 114, 116>>,
     pin |-> "ocellus"],                          \* "Ocellus Starport"
    [type |-> <<79, 114, 98, 105, 115, 32, 83, 116, 97, 114, 112, 111, 114, 116>>,
     pin |-> "orbis"],                            \* "Orbis Starport"
    [type |-> <<79, 117, 116, 112, 111, 115, 116>>,
     pin |-> "outpost"],                          \* "Outpost"
    [type |-> <<80, 108, 97, 110, 101, 116, 97, 114, 121, 32, 79, 117, 116,
                112, 111, 115, 116>>,
     pin |-> "planetarybase"] }                   \* "Planetary Outpost"

DEFAULT_PIN == "orange"

\* get_pin_color with an empty default.
get_pin_color_nodefault(station_type) ==
    IF \E e \in TYPE_TO_PIN : e.type = station_type
    THEN (CHOOSE e \in TYPE_TO_PIN : e.type = station_type).pin
    ELSE ""

\* TYPE_TO_PIN.get(station_type, DEFAULT_PIN)
get_pin_color(station_type) ==
    IF \E e \in TYPE_TO_PIN : e.type = station_type
    THEN (CHOOSE e \in TYPE_TO_PIN : e.type = station_type).pin
    ELSE DEFAULT_PIN

\* ------------------------------------------------------- record source lines

\* The value of a line's "name" field: absent, a non-string (null) or a string.
NameAbsent == [tag |-> "absent", s |-> <<>>]
NameNull == [tag |-> "null", s |-> <<>>]
NameStr(s) == [tag |-> "str", s |-> s]

\* The value of a line's "coords" field: absent, null, a JSON object (its x, y, z
\* members, each optional, and whether it has any other member) or a JSON array.
CoordsAbsent == [tag |-> "absent", x |-> None, y |-> None, z |-> None, extra |-> FALSE]
CoordsList == [tag |-> "list", x |-> None, y |-> None, z |-> None, extra |-> FALSE]
CoordsDict(x, y, z) == [tag |-> "dict", x |-> x, y |-> y, z |-> z, extra |-> FALSE]

\* One line of the JSONL file.
BlankLine == [kind |-> "blank", name |-> NameAbsent, coords |-> CoordsAbsent]
MalformedLine == [kind |-> "malformed", name |-> NameAbsent, coords |-> CoordsAbsent]
ScalarLine == [kind |-> "scalar", name |-> NameAbsent, coords |-> CoordsAbsent]
ObjectLine(name, coords) == [kind |-> "object", name |-> name, coords |-> coords]

\* bool(coords): an absent field defaults to {}, which is false like null.
Truthy(coords) ==
    \/ coords.tag = "list"
    \/ /\ coords.tag = "dict"
       /\ (coords.x # None \/ coords.y # None \/ coords.z # None \/ coords.extra)

\* system.get("name", "").strip() of a line whose name is a string or absent.
LineName(line) == Strip(line.name.s)

\* What one iteration of the build loop does with a line:
\*   "blank"  line.strip() is empty, nothing happens
\*   "warn"   json.loads raises JSONDecodeError: warning, continue
\*   "raise"  an exception the loop does not catch (AttributeError)
\*   "skip"   name or coords is false: nothing happens
\*   "insert" INSERT OR REPLACE
LineOutcome(line) ==
    CASE line.kind = "blank" -> "blank"
      [] line.kind = "malformed" -> "warn"
      [] line.kind = "scalar" -> "raise"
      [] OTHER ->
           IF line.name.tag = "null" THEN "raise"
           ELSE IF LineName(line) # <<>> /\ Truthy(line.coords)
                THEN (IF line.coords.tag = "list" THEN "raise" ELSE "insert")
                ELSE "skip"

\* The row the INSERT of a line binds: (name, coords.get("x"), .get("y"), .get("z")).
LineRow(line) ==
    [name |-> LineName(line), x |-> line.coords.x, y |-> line.coords.y,
     z |-> line.coords.z]

\* ----------------------------------------------------------- the systems table

\* INSERT OR REPLACE INTO systems: the primary key is name COLLATE NOCASE, so the
\* row whose name equals the new one under NOCASE is replaced.
InsertOrReplace(tbl, row) ==
    {r \in tbl : ~NoCaseEq(r.name, row.name)} \cup {row}

\* get_system_coords: the coordinates of the row whose name matches, or None.
get_system_coords(tbl, system_name) ==
    IF \E r \in tbl : NoCaseEq(r.name, system_name)
    THEN LET r == CHOOSE q \in tbl : NoCaseEq(q.name, system_name)
         IN  Some([x |-> r.x, y |-> r.y, z |-> r.z])
    ELSE None

\* ------------------------------------------------------------------ inputs

RECURSIVE SeqsUpTo(_, _)
SeqsUpTo(S, n) ==
    IF n = 0 THEN {<<>>}
    ELSE LET shorter == SeqsUpTo(S, n - 1)
         IN  shorter \cup {Append(q, e) : q \in shorter, e \in S}

C0 == CoordsDict(Some(0), Some(0), Some(0))
C1v == CoordsDict(Some(1), Some(1), Some(1))

\* Lines of the sources of Spec: the valid records "S" and "T".
PipelineLines == {
    ObjectLine(NameStr(<<83>>), C0),
    ObjectLine(NameStr(<<84>>), C0) }

\* Lines of the sources of SpecBuild: every shape the build loop tells apart.
WideLines == PipelineLines \cup {
    ObjectLine(NameStr(<<115>>), C1v),                \* "s"
    BlankLine,
    MalformedLine,
    ScalarLine,
    ObjectLine(NameNull, C0),
    ObjectLine(NameAbsent, C0),
    ObjectLine(NameStr(<<32, 32>>), C0),
    ObjectLine(NameStr(<<83>>), CoordsAbsent),
    ObjectLine(NameStr(<<201>>), C0),                 \* "É"
    ObjectLine(NameStr(<<233>>), C1v),                \* "é"
    ObjectLine(NameStr(<<83>>), CoordsDict(Some(1), Some(1), None)),
    ObjectLine(NameStr(<<83>>), CoordsList),
    ObjectLine(NameStr(<<32, 84, 32>>), C1v) }        \* " T "

PipelineSources == SeqsUpTo(PipelineLines, MaxLines)
WideSources == SeqsUpTo(WideLines, MaxWideLines)

Outpost == <<79, 117, 116, 112, 111, 115, 116>>
Megaship == <<77, 101, 103, 97, 115, 104, 105, 112>>

\* Rows of the station table as csv.DictReader yields them.
StationRows == {
    [Name |-> <<65>>, SystemName |-> <<115>>, Type |-> Outpost],            \* "s"
    [Name |-> <<65>>, SystemName |-> <<32, 84>>, Type |-> Megaship],        \* " T"
    [Name |-> <<66>>, SystemName |-> <<233>>, Type |-> <<32>> \o Outpost] } \* "é"

\* -------------------------------------------------------------------- state

VARIABLES
    source,         \* the JSONL file: its lines
    srcStatus,      \* the JSONL file: "ok", "missing" or "unreadable"
    csvStatus,      \* the stations CSV: "ok", "missing" or "unreadable"
    srcMtime,       \* os.path.getmtime(jsonl_path)
    now,            \* the file-system clock
    dbExists,       \* os.path.exists(db_path)
    db,             \* the committed rows of table systems
    dbMtime,        \* os.path.getmtime(db_path)
    pc,             \* where the running process is ("idle": no process)
    gate,           \* the path ensure_systems_db took: "none", "fresh", "stale"
    builds,         \* calls of build_systems_db by this process
    txn,            \* the rows the build's connection sees (uncommitted included)
    line_num,       \* build loop: number of the next line
    count,          \* build loop: rows inserted
    warnings,       \* build loop: line numbers of the warnings printed
    rows,           \* join: the station rows read so far
    markers,        \* join: markers
    unmatched,      \* join: unmatched
    matched_count,  \* join: matched_count
    summary,        \* join: the summary printed (None until it is)
    written,        \* what this process wrote to output_path (None: nothing)
    err,            \* how the process failed ("" while it has not)
    interrupted,    \* history: a build was cut short after a commit and no build
                    \* has completed since
    refBuild        \* history: the source, the resulting store and the time of
                    \* some completed build (None until one is recorded)

vars == <<source, srcStatus, csvStatus, srcMtime, now, dbExists, db, dbMtime, pc,
          gate, builds, txn, line_num, count, warnings, rows, markers, unmatched,
          matched_count, summary, written, err, interrupted, refBuild>>

files == <<source, srcStatus, csvStatus, srcMtime, now, dbExists, db, dbMtime>>
inputFiles == <<source, srcStatus, csvStatus, srcMtime, now>>
storeVars == <<dbExists, db, dbMtime>>
buildVars == <<txn, line_num, count, warnings>>
joinVars == <<rows, markers, unmatched, matched_count, summary, written>>
history == <<interrupted, refBuild>>

\* A process's memory before main runs.
FreshLocals ==
    /\ gate' = "none"
    /\ builds' = 0
    /\ txn' = {}
    /\ line_num' = 0
    /\ count' = 0
    /\ warnings' = <<>>
    /\ rows' = <<>>
    /\ markers' = <<>>
    /\ unmatched' = <<>>
    /\ matched_count' = 0
    /\ summary' = None
    /\ written' = None
    /\ err' = ""

InitCommon ==
    /\ srcStatus = "ok"
    /\ csvStatus = "ok"
    /\ srcMtime = 0
    /\ now = 0
    /\ dbExists = FALSE
    /\ db = {}
    /\ dbMtime = 0
    /\ pc = "idle"
    /\ gate = "none"
    /\ builds = 0
    /\ txn = {}
    /\ line_num = 0
    /\ count = 0
    /\ warnings = <<>>
    /\ rows = <<>>
    /\ markers = <<>>
    /\ unmatched = <<>>
    /\ matched_count = 0
    /\ summary = None
    /\ written = None
    /\ err = ""
    /\ interrupted = FALSE
    /\ refBuild = None

\* A workspace holding a record source and no store yet.
Init == source \in PipelineSources /\ InitCommon

InitWide == source \in WideSources /\ InitCommon

\* ------------------------------------------------------------------ __main__

\* python generate_markers.py
Start ==
    /\ pc = "idle"
    /\ pc' = "ensure"
    /\ UNCHANGED <<files, gate, builds, buildVars, joinVars, err, history>>

\* ---------------------------------------------------------- ensure_systems_db

\* UpToDate with the comparison made strict.
UpToDateStrict == dbExists /\ dbMtime > srcMtime

\* os.path.exists(db_path) and db_mtime >= jsonl_mtime
UpToDate == dbExists /\ dbMtime >= srcMtime

\* AfterEnsure that rebuilds whatever the gate says.
AfterEnsureAlwaysBuild(fresh) == "build_open"

\* AfterEnsure without the call of build_systems_db.
AfterEnsureNoBuild(fresh) == "join_open"

\* Where ensure_systems_db goes: the fresh path returns (generate_markers is
\* next), the other path calls build_systems_db.
AfterEnsure(fresh) == IF fresh THEN "join_open" ELSE "build_open"

\* os.path.getmtime(jsonl_path) succeeds: it raises FileNotFoundError, which
\* nothing catches, on a missing file, and needs no read permission.
SourceStat == srcStatus # "missing"

ensure_systems_db ==
    /\ pc = "ensure"
    /\ gate' = IF ~SourceStat THEN gate ELSE IF UpToDate THEN "fresh" ELSE "stale"
    /\ pc' = IF ~SourceStat THEN "failed" ELSE AfterEnsure(UpToDate)
    /\ err' = IF ~SourceStat THEN "FileNotFoundError" ELSE err
    /\ UNCHANGED <<files, builds, buildVars, joinVars, history>>

\* ----------------------------------------------------------- build_systems_db

\* ClearExisting without the DELETE.
KeepExisting(tbl) == tbl

\* DELETE FROM systems
ClearExisting(tbl) == {}

\* open(jsonl_path) succeeds: FileNotFoundError is caught and ends in
\* sys.exit(1), PermissionError is not caught.
SourceOpens == srcStatus = "ok"

\* connect, CREATE TABLE IF NOT EXISTS (committed at once: a new file holds an
\* empty table), DELETE FROM systems (in the transaction), count = 0, open; a
\* source that does not open ends the process, the transaction is lost.
BuildOpen ==
    /\ pc = "build_open"
    /\ builds' = builds + 1
    /\ dbExists' = TRUE
    /\ db' = IF dbExists THEN db ELSE {}
    /\ dbMtime' = IF dbExists THEN dbMtime ELSE now
    /\ txn' = IF SourceOpens THEN ClearExisting(IF dbExists THEN db ELSE {}) ELSE {}
    /\ count' = 0
    /\ line_num' = 1
    /\ warnings' = <<>>
    /\ pc' = IF SourceOpens THEN "build" ELSE "failed"
    /\ err' = CASE SourceOpens -> err
                [] srcStatus = "missing" -> "SystemExit"
                [] OTHER -> "PermissionError"
    /\ UNCHANGED <<inputFiles, gate, joinVars, history>>

\* count % 10000 == 0
BatchFull(n) == n % BatchSize = 0

\* One iteration of the loop over the lines.
BuildLine ==
    /\ pc = "build"
    /\ line_num <= Len(source)
    /\ LET line == source[line_num]
           outcome == LineOutcome(line)
           inserted == InsertOrReplace(txn, LineRow(line))
           commit == outcome = "insert" /\ BatchFull(count + 1)
       IN  /\ pc' = IF outcome = "raise" THEN "failed" ELSE "build"
           /\ err' = IF outcome = "raise" THEN "AttributeError" ELSE err
           /\ txn' = CASE outcome = "insert" -> inserted
                       [] outcome = "raise" -> {}
                       [] OTHER -> txn
           /\ count' = IF outcome = "insert" THEN count + 1 ELSE count
           /\ warnings' = IF outcome = "warn" THEN Append(warnings, line_num)
                          ELSE warnings
           /\ line_num' = IF outcome = "raise" THEN line_num ELSE line_num + 1
           /\ db' = IF commit THEN inserted ELSE db
           /\ dbMtime' = IF commit THEN now ELSE dbMtime
    /\ UNCHANGED <<inputFiles, dbExists, gate, builds, joinVars, history>>

\* End of the file: conn.commit(), conn.close(), return count.
BuildEnd ==
    /\ pc = "build"
    /\ line_num > Len(source)
    /\ db' = txn
    /\ dbMtime' = now
    /\ txn' = {}
    /\ pc' = "join_open"
    /\ interrupted' = FALSE
    /\ refBuild' \in {refBuild} \cup
                     (IF refBuild = None
                      THEN {Some([source |-> source, db |-> txn, at |-> now])}
                      ELSE {})
    /\ UNCHANGED <<inputFiles, dbExists, gate, builds, line_num, count, warnings,
                   joinVars, err>>

\* ----------------------------------------------------------- generate_markers

\* StationsOpen of a CSV that always opens.
StationsOpenAlways == TRUE

\* open(csv_path) succeeds: FileNotFoundError is caught and ends in
\* sys.exit(1), PermissionError is not caught; conn.close() runs either way.
StationsOpen == csvStatus = "ok"

\* connect, markers = [], unmatched = [], matched_count = 0, open the CSV.
JoinOpen ==
    /\ pc = "join_open"
    /\ rows' = <<>>
    /\ markers' = <<>>
    /\ unmatched' = <<>>
    /\ matched_count' = 0
    /\ pc' = IF StationsOpen THEN "join" ELSE "failed"
    /\ err' = CASE StationsOpen -> err
                [] csvStatus = "missing" -> "SystemExit"
                [] OTHER -> "PermissionError"
    /\ UNCHANGED <<files, gate, builds, buildVars, summary, written, history>>

\* f"{system_name}\n{name}\nType : {station_type}"
MarkerText(system_name, name, station_type) ==
    system_name \o <<10>> \o name \o <<10, 84, 121, 112, 101, 32, 58, 32>>
        \o station_type

\* The marker of a matched station.
Marker(system_name, name, station_type, coords) ==
    [pin |-> get_pin_color(station_type),
     text |-> MarkerText(system_name, name, station_type),
     x |-> coords.x, y |-> coords.y, z |-> coords.z]

\* Unmatched with the append left out.
UnmatchedDropped(system_name, name, station_type) == <<>>

\* What a station without coordinates adds to unmatched.
Unmatched(system_name, name, station_type) ==
    <<[name |-> name, system |-> system_name, type |-> station_type]>>

\* AddMarker that keeps one marker of several equal ones.
AddMarkerOnce(ms, m) ==
    IF \E k \in 1..Len(ms) : ms[k] = m THEN ms ELSE Append(ms, m)

\* markers.append(marker)
AddMarker(ms, m) == Append(ms, m)

\* One iteration of the loop over the rows of the CSV.
JoinRow ==
    /\ pc = "join"
    /\ Len(rows) < MaxRows
    /\ \E row \in StationRows :
         LET name == Strip(row.Name)
             system_name == Strip(row.SystemName)
             station_type == Strip(row.Type)
             coords == get_system_coords(db, system_name)
         IN  /\ rows' = Append(rows, row)
             /\ IF coords # None
                THEN /\ markers' = AddMarker(markers,
                             Marker(system_name, name, station_type, coords[1]))
                     /\ matched_count' = matched_count + 1
                     /\ UNCHANGED unmatched
                ELSE /\ unmatched' = unmatched
                             \o Unmatched(system_name, name, station_type)
                     /\ UNCHANGED <<markers, matched_count>>
    /\ UNCHANGED <<files, pc, gate, builds, buildVars, summary, written, err,
                   history>>

\* End of the CSV: close, write the markers, print the summary.
JoinEnd ==
    /\ pc = "join"
    /\ summary' = Some([total |-> matched_count + Len(unmatched),
                        matched |-> matched_count,
                        unmatched |-> Len(unmatched)])
    /\ written' = Some(markers)
    /\ pc' = "done"
    /\ UNCHANGED <<files, gate, builds, buildVars, rows, markers, unmatched,
                   matched_count, err, history>>

\* The process ends (normally or on the uncaught exception).
Exit ==
    /\ pc \in {"done", "failed"}
    /\ pc' = "idle"
    /\ FreshLocals
    /\ UNCHANGED <<files, history>>

\* ---------------------------------------------------------------- environment

\* The process is killed while it builds: the open transaction is lost.
Kill ==
    /\ pc = "build"
    /\ pc' = "idle"
    /\ FreshLocals
    /\ interrupted' = (interrupted \/ (count >= BatchSize /\ line_num <= Len(source)))
    /\ UNCHANGED <<files, refBuild>>

Tick ==
    /\ pc = "idle"
    /\ now < MaxTime
    /\ now' = now + 1
    /\ UNCHANGED <<source, srcStatus, csvStatus, srcMtime, storeVars, pc, gate, builds, buildVars,
                   joinVars, err, history>>

\* The record source is rewritten with the same lines (touch).
TouchSource ==
    /\ pc = "idle"
    /\ srcStatus # "missing"
    /\ srcMtime < now
    /\ srcMtime' = now
    /\ UNCHANGED <<source, srcStatus, csvStatus, now, storeVars, pc, gate, builds, buildVars, joinVars,
                   err, history>>

\* The record source is replaced by another one (or written anew).
EditSource ==
    /\ pc = "idle"
    /\ \E s \in PipelineSources :
          /\ s # source \/ srcStatus = "missing"
          /\ source' = s
    /\ srcStatus' = "ok"
    /\ srcMtime' = now
    /\ UNCHANGED <<csvStatus, now, storeVars, pc, gate, builds, buildVars,
                   joinVars, err, history>>

\* The record source is deleted, between runs or between the getmtime and the
\* open of a run that builds.
RemoveSource ==
    /\ pc \in {"idle", "build_open"}
    /\ srcStatus # "missing"
    /\ srcStatus' = "missing"
    /\ source' = <<>>
    /\ srcMtime' = 0
    /\ UNCHANGED <<csvStatus, now, storeVars, pc, gate, builds, buildVars,
                   joinVars, err, history>>

\* The record source loses or regains its read permission.
ChmodSource ==
    /\ pc = "idle"
    /\ srcStatus # "missing"
    /\ srcStatus' = IF srcStatus = "ok" THEN "unreadable" ELSE "ok"
    /\ UNCHANGED <<source, csvStatus, srcMtime, now, storeVars, pc, gate, builds,
                   buildVars, joinVars, err, history>>

\* The stations CSV is deleted, restored, or loses its read permission.
ChangeStations ==
    /\ pc = "idle"
    /\ \E st \in {"ok", "missing", "unreadable"} \ {csvStatus} : csvStatus' = st
    /\ UNCHANGED <<source, srcStatus, srcMtime, now, storeVars, pc, gate, builds,
                   buildVars, joinVars, err, history>>

Run ==
    \/ Start
    \/ ensure_systems_db
    \/ BuildOpen
    \/ BuildLine
    \/ BuildEnd
    \/ JoinOpen
    \/ JoinRow
    \/ JoinEnd
    \/ Exit

Environment == Kill \/ Tick \/ TouchSource \/ EditSource

FileEvents == RemoveSource \/ ChmodSource \/ ChangeStations

Next == Run \/ Environment

NextFiles == Run \/ Tick \/ TouchSource \/ EditSource \/ FileEvents

\* Runs of the pipeline with the files changing and the process being killed
\* between and during them.
Spec == Init /\ [][Next]_vars

\* Runs of the pipeline with the input files changing, going missing and
\* becoming unreadable between them.
SpecFiles == Init /\ [][NextFiles]_vars

\* Runs of the pipeline over one record source of any shape.
SpecBuild == InitWide /\ [][Run]_vars

\* ------------------------------------------------------------------- claims

\* The phases of a run in which generate_markers may look names up.
JoinPcs == {"join_open", "join", "done"}

\* The table a build that reads the first n lines of src without failing leaves.
RECURSIVE IndexOf(_, _)
IndexOf(src, n) ==
    IF n = 0 THEN {}
    ELSE IF LineOutcome(src[n]) = "insert"
         THEN InsertOrReplace(IndexOf(src, n - 1), LineRow(src[n]))
         ELSE IndexOf(src, n - 1)

\* str.lower() of a character (ASCII and Latin-1 letters).
Lower(c) == IF c \in 65..90 \/ (c \in 192..222 /\ c # 215) THEN c + 32 ELSE c

\* a and b are case variants of one name.
CaseVariant(a, b) ==
    /\ Len(a) = Len(b)
    /\ \A i \in 1..Len(a) : Lower(a[i]) = Lower(b[i])

\* C1: ensure_systems_db calls build_systems_db if and only if the store file
\* does not exist or the source's mtime is strictly newer than the store's; when
\* the store's mtime is >= the source's, no build runs and the store is left as
\* it is.
C1_GateBuildsIffStale ==
    /\ [][pc = "ensure" =>
            /\ (pc' = "build_open") = (~dbExists \/ srcMtime > dbMtime)
            /\ (pc' = "join_open") = (dbExists /\ dbMtime >= srcMtime)]_vars
    /\ [][gate = "fresh" => UNCHANGED <<dbExists, db, dbMtime>>]_vars
    /\ [](gate = "fresh" => builds = 0)
    /\ [](gate = "stale" /\ pc \in JoinPcs => builds = 1)

\* C1 witness: a run that found the store's mtime equal to the source's, built
\* nothing and is looking names up in the existing store.
C1_Witness ==
    /\ gate = "fresh"
    /\ dbMtime = srcMtime
    /\ builds = 0
    /\ pc = "join"
    /\ rows # <<>>

\* C2: a store left incomplete by a build that was interrupted after a commit is
\* rebuilt before any lookup of the next run: no lookup is ever made while the
\* store is the incomplete one.
C2_IncompleteStoreNeverRead ==
    ~(interrupted /\ pc = "join" /\ rows # <<>>)

\* C3: in a run whose gate is stale exactly one build runs, and it has read the
\* whole source and committed before generate_markers starts: in the lookup
\* phases no build is in progress and the store is the whole index of the source.
C3_BuildCommittedBeforeLookup ==
    /\ builds <= 1
    /\ (gate = "stale" /\ pc \in JoinPcs) =>
          /\ builds = 1
          /\ line_num = Len(source) + 1
          /\ txn = {}
          /\ db = IndexOf(source, Len(source))

\* C3 witness: a stale run that has built a non-empty store and looked a name up.
C3_Witness ==
    /\ gate = "stale"
    /\ pc = "join"
    /\ rows # <<>>
    /\ db # {}

\* C4: every station row read yields exactly one outcome, and the summary's
\* counts are those of the two lists: matched + unmatched = total = rows read.
C4_OneOutcomePerRow ==
    /\ pc \in {"join", "done"} =>
          /\ Len(markers) + Len(unmatched) = Len(rows)
          /\ matched_count = Len(markers)
    /\ pc = "done" =>
          /\ summary # None
          /\ summary[1].total = Len(rows)
          /\ summary[1].matched = Len(markers)
          /\ summary[1].unmatched = Len(unmatched)
          /\ summary[1].matched + summary[1].unmatched = summary[1].total

\* C4 witness: a completed run with a matched and an unmatched station.
C4_Witness ==
    /\ pc = "done"
    /\ Len(markers) >= 1
    /\ Len(unmatched) >= 1

\* C5: a station whose system name is a case variant of a stored name gets the
\* stored coordinates of that name.
C5_LookupCaseInsensitive ==
    pc \in {"join", "done"} =>
        \A i \in 1..Len(rows) : \A r \in db :
            CaseVariant(r.name, Strip(rows[i].SystemName)) =>
                get_system_coords(db, Strip(rows[i].SystemName))
                    = Some([x |-> r.x, y |-> r.y, z |-> r.z])

\* C6: after a build of a source with two records whose names are case variants
\* and whose coordinates differ, the store holds one entry for that name and a
\* lookup returns the coordinates of the latest such record.
C6_LastDuplicateWins ==
    (gate = "stale" /\ pc \in JoinPcs) =>
        \A i, j \in 1..Len(source) :
            LET a == LineRow(source[i])
                b == LineRow(source[j])
                same == {k \in 1..Len(source) :
                            /\ LineOutcome(source[k]) = "insert"
                            /\ CaseVariant(LineRow(source[k]).name, a.name)}
                last == LineRow(source[CHOOSE k \in same : \A m \in same : m <= k])
            IN  ( /\ i < j
                  /\ LineOutcome(source[i]) = "insert"
                  /\ LineOutcome(source[j]) = "insert"
                  /\ CaseVariant(a.name, b.name)
                  /\ <<a.x, a.y, a.z>> # <<b.x, b.y, b.z>> ) =>
                    /\ Cardinality({r \in db : CaseVariant(r.name, a.name)}) = 1
                    /\ get_system_coords(db, a.name)
                           = Some([x |-> last.x, y |-> last.y, z |-> last.z])

\* C7: a completed build on a source leaves the store an earlier completed build
\* on the same source left, whatever the store held before it.
C7_BuildIdempotent ==
    (gate = "stale" /\ pc \in JoinPcs /\ refBuild # None) =>
        (refBuild[1].source = source => db = refBuild[1].db)

\* C7 witness: a second build of the same source has completed, later than the
\* recorded one.
C7_Witness ==
    /\ gate = "stale"
    /\ pc = "join_open"
    /\ refBuild # None
    /\ refBuild[1].source = source
    /\ refBuild[1].at < dbMtime
    /\ db # {}

\* C8: no line halts the build: a run never fails while the source can be opened.
C8_NoLineHaltsBuild ==
    pc # "failed"

\* C9: a completed build has printed one warning for every non-blank line it did
\* not insert.
C9_EverySkipWarned ==
    (gate = "stale" /\ pc \in JoinPcs) =>
        Len(warnings) =
            Cardinality({k \in 1..Len(source) : LineOutcome(source[k]) # "blank"})
                - count

\* C10: a record lacking one of x, y, z is dropped: the store holds no row and the
\* markers hold no marker with a missing coordinate.
C10_NoPartialCoordinates ==
    /\ \A r \in db : r.x # None /\ r.y # None /\ r.z # None
    /\ \A i \in 1..Len(markers) :
          markers[i].x # None /\ markers[i].y # None /\ markers[i].z # None

\* C11 (as amended): a run that finds the record source missing, or cannot open
\* it when it has to build, or cannot open the station table, fails (non-zero
\* exit) and writes nothing; whatever a run writes, it writes after the last
\* station row, and it is the marker list.
C11_FatalIOWritesNothing ==
    /\ [](written # None =>
            /\ pc = "done"
            /\ written = Some(markers)
            /\ Len(markers) + Len(unmatched) = Len(rows))
    /\ [](pc = "failed" => written = None /\ err # "")
    /\ [][pc = "ensure" /\ srcStatus = "missing" => pc' = "failed"]_vars
    /\ [][pc = "build_open" /\ pc' # pc /\ srcStatus # "ok" => pc' = "failed"]_vars
    /\ [][pc = "join_open" /\ csvStatus # "ok" => pc' = "failed"]_vars

\* C11 witness: a run that built the store, found the station table missing and
\* exited without writing.
C11_Witness ==
    /\ pc = "failed"
    /\ err = "SystemExit"
    /\ csvStatus = "missing"
    /\ gate = "stale"
    /\ db # {}
    /\ written = None

\* C11 as claimed: while the record source or the station table is missing or
\* unreadable, no run writes the output.
C11_AnyBadInputWritesNothing ==
    (srcStatus # "ok" \/ csvStatus # "ok") => written = None

\* The markers of the first n of the rows rs, looked up in tbl, in their order.
RECURSIVE MatchedMarkers(_, _, _)
MatchedMarkers(rs, tbl, n) ==
    IF n = 0 THEN <<>>
    ELSE LET row == rs[n]
             coords == get_system_coords(tbl, Strip(row.SystemName))
             prev == MatchedMarkers(rs, tbl, n - 1)
         IN  IF coords # None
             THEN Append(prev, Marker(Strip(row.SystemName), Strip(row.Name),
                                      Strip(row.Type), coords[1]))
             ELSE prev

\* C12: the marker list is the markers of the rows that hit the index, in the
\* order of the rows, one per row (equal rows give equal markers, all kept).
C12_MarkersInInputOrder ==
    pc \in {"join", "done"} => markers = MatchedMarkers(rows, db, Len(rows))

\* C12 witness: two equal rows that hit have given two markers.
C12_Witness ==
    /\ pc = "done"
    /\ Len(rows) >= 2
    /\ rows[1] = rows[2]
    /\ Len(markers) >= 2
    /\ markers[1] = markers[2]

\* The rows (by index) whose system name is in the store.
HitRows == {i \in 1..Len(rows) :
               get_system_coords(db, Strip(rows[i].SystemName)) # None}

\* The row the k-th marker comes from.
HitRow(k) ==
    CHOOSE i \in HitRows : Cardinality({j \in HitRows : j <= i}) = k

\* C13: whether a station is matched depends on the lookup alone, and a matched
\* station whose type is not in the pin table gets the pin "orange"; no type
\* fails the run.
C13_UnknownTypeDefaultPin ==
    pc \in {"join", "done"} =>
        /\ Len(markers) = Cardinality(HitRows)
        /\ Len(unmatched) = Len(rows) - Cardinality(HitRows)
        /\ err = ""
        /\ \A k \in 1..Len(markers) :
              (\A e \in TYPE_TO_PIN : e.type # Strip(rows[HitRow(k)].Type)) =>
                  markers[k].pin = "orange"

\* C13 witness: a station of type "Megaship" in a known system has its marker.
C13_Witness ==
    /\ pc = "done"
    /\ \E k \in 1..Len(markers) :
          /\ k <= Cardinality(HitRows)
          /\ Strip(rows[HitRow(k)].Type) = Megaship
          /\ markers[k].pin = "orange"

\* A name in lower case.
Normalized(s) == [i \in 1..Len(s) |-> Lower(s[i])]

\* The lines of the source that the build inserts.
ValidLines == {k \in 1..Len(source) : LineOutcome(source[k]) = "insert"}

\* C14: after a completed build the keys of the store are exactly the
\* normalized names of the records of the source the build inserts, and a name
\* is found iff such a record has it, whatever the store held before.
C14_BuildReplacesStore ==
    (gate = "stale" /\ pc \in JoinPcs) =>
        /\ {Normalized(r.name) : r \in db}
               = {Normalized(LineName(source[k])) : k \in ValidLines}
        /\ \A row \in StationRows :
              (get_system_coords(db, Strip(row.SystemName)) # None)
                  = (\E k \in ValidLines :
                        NoCaseEq(LineName(source[k]), Strip(row.SystemName)))

\* C14 witness: a build has completed after the recorded one and a name the
\* recorded build had stored is no longer found.
C14_Witness ==
    /\ gate = "stale"
    /\ pc = "join_open"
    /\ refBuild # None
    /\ refBuild[1].at < dbMtime
    /\ \E r \in refBuild[1].db : get_system_coords(db, r.name) = None

\* C15: the rows of the store change (and the store file appears) only in the
\* steps of a build that a stale gate started: not on the fresh path, not in a
\* lookup, not in generate_markers, however it ends.
C15_OnlyBuildMutatesStore ==
    [][(db' # db \/ dbExists' # dbExists) =>
          (gate = "stale" /\ pc \in {"build_open", "build"})]_vars

\* C15 witness: a run on the fresh path found the station table missing and
\* exited; the store it did not build is there.
C15_Witness ==
    /\ pc = "failed"
    /\ err = "SystemExit"
    /\ csvStatus = "missing"
    /\ gate = "fresh"
    /\ builds = 0
    /\ db # {}

====
